---- MODULE Spec2Model ----
(***************************************************************************)
(* Model of Project0/proj.cpp: an OpenMP benchmark that multiplies two     *)
(* arrays element by element NUMTRIES times and reports the peak and the   *)
(* average throughput.                                                     *)
(*                                                                         *)
(* The controlling thread is modelled by its program counter pc; the       *)
(* workers of the "#pragma omp parallel for" region by wpc and the         *)
(* iteration assignment chosen at the fork.  double values are modelled    *)
(* as binary floating-point numbers with a Precision-bit significand and   *)
(* round-to-nearest-even, so that the rounding of every arithmetic         *)
(* operation of the program is part of the model.                          *)
(***************************************************************************)
EXTENDS Integers, Sequences, FiniteSets

\* ------------------------------------------------------------------ bounds
\* number of elements of the arrays (SIZE is 32742 in the program)
SIZE == 3
\* largest thread count NUMT that is explored
MaxNUMT == 2
\* largest trial count NUMTRIES that is explored
MaxNUMTRIES == 3
\* the wall clock reads 0..MaxClock ticks
MaxClock == 3
\* the wall clock advances, or is set back, by at most MaxStep ticks between
\* two readings
MaxStep == 1
\* one clock tick is 2^(-TickBits) seconds
TickBits == 20
\* bits of the significand of a double (53 in the program)
Precision == 6

\* ------------------------------------------------- floating-point numbers
\* A finite number is m * 2^e with m = 0, or 2^(Precision-1) <= |m| < 2^Precision.
Pow2[n \in Int] == IF n <= 0 THEN 1 ELSE 2 * Pow2[n - 1]

Abs(n) == IF n < 0 THEN -n ELSE n

\* number of bits of n
BitLen[n \in Nat] == IF n = 0 THEN 0 ELSE 1 + BitLen[n \div 2]

Zero == [m |-> 0, e |-> 0]

\* the result of dividing a positive number by zero
Inf == [m |-> 0, e |-> 1]

IsInf(x) == x = Inf

\* the values of type double
Double == [m : Int, e : Int]

\* q * 2^e for a rounded significand q <= 2^Precision
Carry[q \in Int, e \in Int] ==
    IF q = Pow2[Precision] THEN [m |-> Pow2[Precision - 1], e |-> e + 1]
    ELSE [m |-> q, e |-> e]

\* n * 2^e with the s > 0 low bits of n rounded away, ties to even
RoundShift[n \in Int, s \in Int, e \in Int] ==
    LET q == n \div Pow2[s]
        r == n % Pow2[s]
        h == Pow2[s - 1]
    IN  Carry[IF r > h \/ (r = h /\ q % 2 = 1) THEN q + 1 ELSE q, e + s]

\* n * 2^e, where n > 0 has s bits more than the significand holds
Shifted[n \in Int, s \in Int, e \in Int] ==
    IF s <= 0 THEN [m |-> n * Pow2[-s], e |-> e + s]
    ELSE RoundShift[n, s, e]

\* n * 2^e, n > 0, rounded to Precision bits
NormPos[n \in Int, e \in Int] == Shifted[n, BitLen[n] - Precision, e]

\* n * 2^e rounded to the nearest representable number
Norm[n \in Int, e \in Int] ==
    IF n = 0 THEN Zero
    ELSE LET p == NormPos[Abs(n), e]
         IN  IF n < 0 THEN [m |-> -p.m, e |-> p.e] ELSE p

\* conversion of an integer to double
Fl(n) == Norm[n, 0]

\* a + b
FAdd[a \in Double, b \in Double] ==
    IF IsInf(a) \/ IsInf(b) THEN Inf
    ELSE IF a.m = 0 THEN b
    ELSE IF b.m = 0 THEN a
    ELSE LET e0 == IF a.e < b.e THEN a.e ELSE b.e
         IN  IF a.e - e0 > Precision + 1 THEN a
             ELSE IF b.e - e0 > Precision + 1 THEN b
             ELSE Norm[a.m * Pow2[a.e - e0] + b.m * Pow2[b.e - e0], e0]

\* a - b, for finite a and b
FSub[a \in Double, b \in Double] == FAdd[a, [m |-> -b.m, e |-> b.e]]

\* a / b, for a finite divisor b; a positive number divided by zero is Inf
FDiv[a \in Double, b \in Double] ==
    IF IsInf(a) THEN Inf
    ELSE IF a.m = 0 THEN Zero
    ELSE IF b.m = 0 THEN Inf
    ELSE LET k == Precision + 2
             n == Abs(a.m) * Pow2[k]
             d == Abs(b.m)
             q == n \div d
             sticky == IF n % d = 0 THEN 0 ELSE 1
             sgn == IF (a.m < 0) = (b.m < 0) THEN 1 ELSE -1
         IN  Norm[sgn * (2 * q + sticky), a.e - b.e - k - 1]

\* a > b
FGt[a \in Double, b \in Double] ==
    IF IsInf(b) THEN FALSE
    ELSE IF IsInf(a) THEN TRUE
    ELSE IF a.m > 0 /\ b.m > 0
         THEN a.e > b.e \/ (a.e = b.e /\ a.m > b.m)
    ELSE IF a.m < 0 /\ b.m < 0
         THEN a.e < b.e \/ (a.e = b.e /\ a.m > b.m)
    ELSE (a.m > 0 /\ b.m <= 0) \/ (a.m = 0 /\ b.m < 0)

\* a >= b
FGe[a \in Double, b \in Double] == a = b \/ FGt[a, b]

\* the text printf("%8.2lf") produces: the sign, and the value rounded to
\* hundredths (ties to even on the exact binary value), or "inf"
Fmt[x \in Double] ==
    IF IsInf(x) THEN [neg |-> FALSE, inf |-> TRUE, cents |-> 0]
    ELSE LET n == 100 * Abs(x.m)
             d == Pow2[-x.e]
             q == n \div d
             r == n % d
             c == IF x.e >= 0 THEN n * Pow2[x.e]
                  ELSE IF -x.e > 30 THEN 0
                  ELSE IF 2 * r > d \/ (2 * r = d /\ q % 2 = 1) THEN q + 1 ELSE q
         IN  [neg |-> x.m < 0, inf |-> FALSE, cents |-> c]

\* order of two printed values
FmtGe(p, q) ==
    LET v(z) == IF z.neg THEN -z.cents ELSE z.cents
    IN  IF q.inf THEN p.inf ELSE p.inf \/ v(p) >= v(q)

\* --------------------------------------------------------------- the state
VARIABLES
    openmp,        \* TRUE iff _OPENMP is defined in the build
    NUMT,          \* compile-time thread count
    NUMTRIES,      \* compile-time trial count
    pc,            \* position of the controlling thread in main
    A, B, C,       \* the three global arrays
    i,             \* index of the initialization loop
    nthreads,      \* thread count set by omp_set_num_threads
    t,             \* trial counter of the outer loop
    clock,         \* the wall clock, in ticks
    time0, time1,  \* timestamps of the current trial
    maxMegaMults,  \* running maximum
    sum,           \* running sum
    owner,         \* iteration -> worker, the partition of the parallel loop
    wpc,           \* position of every worker
    done,          \* per worker, the iterations it has executed in the current loop
    out,           \* output events, in order
    exit,          \* exit status, -1 while main runs
    samples,       \* history: the throughput samples of the completed trials
    writes         \* history: per index, the number of writes of C[index] in
                   \* the current trial

vars == <<openmp, NUMT, NUMTRIES, pc, A, B, C, i, nthreads, t, clock, time0, time1,
          maxMegaMults, sum, owner, wpc, done, out, exit, samples, writes>>

Index == 0..(SIZE - 1)

Workers == 0..(MaxNUMT - 1)

\* threads of the team of the parallel region
Team == 0..(nthreads - 1)

\* global arrays are zero-initialized
Init ==
    /\ openmp \in BOOLEAN
    /\ NUMT \in 1..MaxNUMT
    /\ NUMTRIES \in 1..MaxNUMTRIES
    /\ pc = "start"
    /\ A = [k \in Index |-> 0]
    /\ B = [k \in Index |-> 0]
    /\ C = [k \in Index |-> 0]
    /\ i = 0
    /\ nthreads = 1
    /\ t = 0
    /\ clock = 0
    /\ time0 = Zero
    /\ time1 = Zero
    /\ maxMegaMults = Zero
    /\ sum = Zero
    /\ owner = [k \in Index |-> 0]
    /\ wpc = [w \in Workers |-> "idle"]
    /\ done = [w \in Workers |-> {}]
    /\ out = <<>>
    /\ exit = -1
    /\ samples = <<>>
    /\ writes = [k \in Index |-> 0]

\* omp_get_wtime(): wall-clock seconds as a double; c is the clock reading
omp_get_wtime(c) == Norm[c, -TickBits]

\* the readings the wall clock can show at the next call of omp_get_wtime:
\* time has passed since the last reading
Readings == {c \in clock..(clock + MaxStep) : c <= MaxClock}

\* mutant: the message is printed but the return is missing
Unsupported_Mut ==
    /\ pc = "start"
    /\ ~openmp
    /\ out' = Append(out, [stream |-> "stderr", text |-> "unsupported", val |-> 0])
    /\ pc' = "init"
    /\ UNCHANGED <<clock, openmp, NUMT, NUMTRIES, A, B, C, i, nthreads, t, time0, time1,
                   maxMegaMults, sum, owner, wpc, done, exit, samples, writes>>

\* #ifndef _OPENMP: print the message and return 1
Unsupported ==
    /\ pc = "start"
    /\ ~openmp
    /\ out' = Append(out, [stream |-> "stderr", text |-> "unsupported", val |-> 0])
    /\ exit' = 1
    /\ pc' = "exited"
    /\ UNCHANGED <<clock, openmp, NUMT, NUMTRIES, A, B, C, i, nthreads, t, time0, time1,
                   maxMegaMults, sum, owner, wpc, done, samples, writes>>

\* with _OPENMP defined main starts with the initialization loop
Start ==
    /\ pc = "start"
    /\ openmp
    /\ i' = 0
    /\ pc' = "init"
    /\ UNCHANGED <<clock, openmp, NUMT, NUMTRIES, A, B, C, nthreads, t, time0, time1,
                   maxMegaMults, sum, owner, wpc, done, out, exit, samples, writes>>

\* mutant: the last element is not initialized
InitTest_Mut(j) == j < SIZE - 1

\* loop test of the initialization loop
InitTest(j) == j < SIZE

\* one iteration of the initialization loop
InitElem ==
    /\ pc = "init"
    /\ InitTest(i)
    /\ A' = [A EXCEPT ![i] = 1]
    /\ B' = [B EXCEPT ![i] = 2]
    /\ i' = i + 1
    /\ UNCHANGED <<clock, openmp, NUMT, NUMTRIES, pc, C, nthreads, t, time0, time1,
                   maxMegaMults, sum, owner, wpc, done, out, exit, samples, writes>>

\* omp_set_num_threads, the diagnostic, and the declarations before the loop
SetThreads ==
    /\ pc = "init"
    /\ ~InitTest(i)
    /\ nthreads' = NUMT
    /\ out' = Append(out, [stream |-> "stderr", text |-> "Using", val |-> NUMT])
    /\ maxMegaMults' = Zero
    /\ sum' = Zero
    /\ t' = 0
    /\ pc' = "loop"
    /\ UNCHANGED <<clock, openmp, NUMT, NUMTRIES, A, B, C, i, time0, time1,
                   owner, wpc, done, exit, samples, writes>>

\* mutant: the loop runs once more
LoopTest_Mut(tt) == tt <= NUMTRIES

\* loop test of the trial loop
LoopTest(tt) == tt < NUMTRIES

\* a passed loop test and time0 = omp_get_wtime()
TrialStart ==
    /\ pc = "loop"
    /\ LoopTest(t)
    /\ \E c \in Readings : clock' = c /\ time0' = omp_get_wtime(c)
    /\ pc' = "fork"
    /\ UNCHANGED <<openmp, NUMT, NUMTRIES, A, B, C, i, nthreads, t, time1,
                   maxMegaMults, sum, owner, wpc, done, out, exit, samples, writes>>

\* #pragma omp parallel for: the team starts and the iterations are
\* distributed among its threads (the schedule is implementation defined); a
\* thread without iterations goes to the barrier at the end of the loop
Fork ==
    /\ pc = "fork"
    /\ \E f \in [Index -> Team] :
          /\ owner' = f
          /\ wpc' = [w \in Workers |->
                       IF w \notin Team THEN "idle"
                       ELSE IF \E k \in Index : f[k] = w THEN "run" ELSE "done"]
    /\ done' = [w \in Workers |-> {}]
    /\ writes' = [k \in Index |-> 0]
    /\ pc' = "join"
    /\ UNCHANGED <<clock, openmp, NUMT, NUMTRIES, A, B, C, i, nthreads, t, time0, time1,
                   maxMegaMults, sum, out, exit, samples>>

\* mutant: the loop is not work-shared, every thread executes every iteration
Pending_Mut(w) == {k \in Index : k \notin done[w]}

\* iterations of worker w not yet executed
Pending(w) == {k \in Index : owner[k] = w /\ k \notin done[w]}

\* the least element of a non-empty set of indices
Least(S) == CHOOSE k \in S : \A j \in S : k <= j

\* mutant: the elements are added
Product_Mut(a, b) == a + b

\* A[i] * B[i]; the elements are small integers, whose product is exact
Product(a, b) == a * b

\* one iteration of the loop body, C[i] = A[i] * B[i], by worker w; after
\* its last iteration the worker arrives at the barrier at the end of the loop
WorkerStep(w) ==
    /\ wpc[w] = "run"
    /\ Pending(w) # {}
    /\ LET k == Least(Pending(w))
       IN  /\ C' = [C EXCEPT ![k] = Product(A[k], B[k])]
           /\ done' = [done EXCEPT ![w] = @ \cup {k}]
           /\ writes' = [writes EXCEPT ![k] = @ + 1]
           /\ wpc' = [wpc EXCEPT ![w] = IF Pending(w) = {k} THEN "done" ELSE "run"]
    /\ UNCHANGED <<clock, openmp, NUMT, NUMTRIES, pc, A, B, i, nthreads, t, time0, time1,
                   maxMegaMults, sum, owner, out, exit, samples>>

\* mutant: the controlling thread waits for one thread only
BarrierOpen_Any == \E w \in Team : wpc[w] = "done"

\* mutant: no barrier at the end of the loop
BarrierOpen_Nowait == TRUE

\* the implicit barrier at the end of the parallel region lets the
\* controlling thread pass when every thread of the team has arrived
BarrierOpen == \A w \in Team : wpc[w] = "done"

\* The wall clock that omp_get_wtime reads is set back while the trial runs,
\* at most once per trial.  The clock is observed only by the two readings of
\* a trial, so a step back at any time of the parallel region has the effect
\* of one just before the second reading.
ClockStepBack ==
    /\ pc = "join"
    /\ \A w \in Team : wpc[w] = "done"
    /\ omp_get_wtime(clock) = time0
    /\ \E c \in (clock - MaxStep)..(clock - 1) : c >= 0 /\ clock' = c
    /\ UNCHANGED <<openmp, NUMT, NUMTRIES, pc, A, B, C, i, nthreads, t, time0, time1,
                   maxMegaMults, sum, owner, wpc, done, out, exit, samples, writes>>

\* end of the parallel region, whose threads go back to the pool, and
\* time1 = omp_get_wtime()
Join ==
    /\ pc = "join"
    /\ BarrierOpen
    /\ \E c \in Readings : clock' = c /\ time1' = omp_get_wtime(c)
    /\ owner' = [k \in Index |-> 0]
    /\ wpc' = [w \in Workers |-> "idle"]
    /\ done' = [w \in Workers |-> {}]
    /\ pc' = "agg"
    /\ UNCHANGED <<openmp, NUMT, NUMTRIES, A, B, C, i, nthreads, t, time0,
                   maxMegaMults, sum, out, exit, samples, writes>>

\* megaMults = (double)SIZE / (time1 - time0) / 1000000.
MegaMults(t0, t1) == FDiv[FDiv[Fl(SIZE), FSub[t1, t0]], Fl(1000000)]

\* mutant: the comparison is reversed
NewMax_Mut(megaMults, mx) == IF FGt[mx, megaMults] THEN megaMults ELSE mx

\* if (megaMults > maxMegaMults) maxMegaMults = megaMults
NewMax(megaMults, mx) == IF FGt[megaMults, mx] THEN megaMults ELSE mx

\* the sample of the trial is folded into sum and maxMegaMults; the locals
\* time0 and time1 of the loop body end their life; t++
Aggregate ==
    /\ pc = "agg"
    /\ LET megaMults == MegaMults(time0, time1)
       IN  /\ sum' = FAdd[sum, megaMults]
           /\ maxMegaMults' = NewMax(megaMults, maxMegaMults)
           /\ samples' = Append(samples, megaMults)
    /\ time0' = Zero
    /\ time1' = Zero
    /\ t' = t + 1
    /\ pc' = "loop"
    /\ UNCHANGED <<clock, openmp, NUMT, NUMTRIES, A, B, C, i, nthreads,
                   owner, wpc, done, out, exit, writes>>

\* mutant: the divisor is off by one
Average_Mut == FDiv[sum, Fl(NUMTRIES + 1)]

\* sum / (double)NUMTRIES
Average == FDiv[sum, Fl(NUMTRIES)]

\* loop exit and printf("Peak Performance ...")
PrintPeak ==
    /\ pc = "loop"
    /\ ~LoopTest(t)
    /\ out' = Append(out, [stream |-> "stdout", text |-> "Peak Performance",
                           val |-> Fmt[maxMegaMults]])
    /\ pc' = "average"
    /\ UNCHANGED <<clock, openmp, NUMT, NUMTRIES, A, B, C, i, nthreads, t, time0, time1,
                   maxMegaMults, sum, owner, wpc, done, exit, samples, writes>>

\* printf("Average Performance ...")
PrintAverage ==
    /\ pc = "average"
    /\ out' = Append(out, [stream |-> "stdout", text |-> "Average Performance",
                           val |-> Fmt[Average]])
    /\ pc' = "return"
    /\ UNCHANGED <<clock, openmp, NUMT, NUMTRIES, A, B, C, i, nthreads, t, time0, time1,
                   maxMegaMults, sum, owner, wpc, done, exit, samples, writes>>

\* return 0
Return ==
    /\ pc = "return"
    /\ exit' = 0
    /\ pc' = "exited"
    /\ UNCHANGED <<clock, openmp, NUMT, NUMTRIES, A, B, C, i, nthreads, t, time0, time1,
                   maxMegaMults, sum, owner, wpc, done, out, samples, writes>>

Next ==
    \/ Unsupported
    \/ Start
    \/ InitElem
    \/ SetThreads
    \/ TrialStart
    \/ Fork
    \/ \E w \in Workers : WorkerStep(w)
    \/ ClockStepBack
    \/ Join
    \/ Aggregate
    \/ PrintPeak
    \/ PrintAverage
    \/ Return

Spec == Init /\ [][Next]_vars

\* the controlling thread
Main ==
    \/ Unsupported \/ Start \/ InitElem \/ SetThreads \/ TrialStart \/ Fork
    \/ Join \/ Aggregate \/ PrintPeak \/ PrintAverage \/ Return

\* the controlling thread and every worker are scheduled fairly
FairSpec ==
    /\ Spec
    /\ WF_vars(Main)
    /\ \A w \in Workers : WF_vars(WorkerStep(w))

\* ------------------------------------------------------------- properties
\* the parallel loop of some trial has completed
LoopCompleted ==
    \/ pc = "agg"
    \/ t >= 1
    \/ (pc = "join" /\ \A w \in Team : wpc[w] = "done")

\* C1: once the parallel loop of a trial has completed, C[i] = A[i] * B[i]
\* = 2 for every index i, for every thread count and every partition.
Thm_C1 ==
    LoopCompleted => \A k \in Index : C[k] = A[k] * B[k] /\ C[k] = 2

\* both threads of a team of two have written elements of C in the first
\* trial and have arrived at the barrier
Wit_C1 ==
    /\ pc = "join" /\ t = 0 /\ NUMT = 2
    /\ done[0] # {} /\ done[1] # {}
    /\ \A w \in Team : wpc[w] = "done"
    /\ \A k \in Index : C[k] = 2

\* no array element written, no trial started, no result printed
Untouched ==
    /\ \A k \in Index : A[k] = 0 /\ B[k] = 0 /\ C[k] = 0
    /\ i = 0 /\ t = 0 /\ samples = <<>>
    /\ \A w \in Workers : wpc[w] = "idle"
    /\ \A k \in Index : writes[k] = 0
    /\ \A j \in 1..Len(out) : out[j].stream # "stdout"

\* C2: without the parallel-execution capability the run ends with exit
\* status 1 after the unsupported message on the error stream; no element of
\* A, B or C is written, no trial is started and no result line is printed;
\* the check comes first, before the initialization of the arrays.
Thm_C2 ==
    /\ ~openmp => <>(pc = "exited" /\ exit = 1)
    /\ [](pc = "start" => Untouched /\ out = <<>>)
    /\ [](~openmp =>
            /\ Untouched
            /\ pc \in {"start", "exited"}
            /\ exit \in {-1, 1}
            /\ (pc = "exited" =>
                  /\ exit = 1
                  /\ out = <<[stream |-> "stderr", text |-> "unsupported", val |-> 0]>>))

\* the run without the capability has ended
Wit_C2 == ~openmp /\ pc = "exited" /\ exit = 1 /\ Len(out) = 1

\* C3: after a complete run the reported peak is greater than or equal to
\* the reported average.
Orig_C3 ==
    (pc = "exited" /\ exit = 0) => FmtGe(out[2].val, out[3].val)

\* C4 as stated: a run with one trial reports a peak equal to the average,
\* whatever the two timestamps are.
Orig_C4 ==
    (pc = "exited" /\ exit = 0 /\ NUMTRIES = 1) => out[2].val = out[3].val

\* C4: a run with one trial whose end timestamp is not before its start
\* timestamp, which are the runs whose sample is not negative, reports a peak
\* equal to the average (both are the sample, or both are inf when the
\* timestamps are equal).
Thm_C4 ==
    /\ pc = "agg" =>
          /\ FGe[time1, time0] <=> FGe[MegaMults(time0, time1), Zero]
          /\ time1 = time0 <=> IsInf(MegaMults(time0, time1))
    /\ (pc \in {"average", "return", "exited"} /\ openmp /\ NUMTRIES = 1
          /\ FGe[samples[1], Zero]) =>
          /\ maxMegaMults = Average
          /\ maxMegaMults = samples[1]
          /\ Fmt[maxMegaMults] = Fmt[Average]
          /\ out[2].val = Fmt[Average]
          /\ (pc = "exited" => out[2].val = out[3].val)

\* a complete run of one trial with a positive elapsed time
Wit_C4 ==
    /\ pc = "exited" /\ exit = 0 /\ NUMTRIES = 1
    /\ samples[1].m > 0
    /\ out[2].val = out[3].val /\ ~out[2].val.inf /\ out[2].val.cents > 0

\* the output of a successful run, as far as it has been produced
OutputOrder ==
    /\ Len(out) <= 3
    /\ Len(out) >= 1 =>
          out[1] = [stream |-> "stderr", text |-> "Using", val |-> NUMT]
    /\ Len(out) >= 2 =>
          /\ out[2].stream = "stdout" /\ out[2].text = "Peak Performance"
          /\ t = NUMTRIES /\ Len(samples) = NUMTRIES
          /\ pc \in {"average", "return", "exited"}
    /\ Len(out) >= 3 =>
          /\ out[3].stream = "stdout" /\ out[3].text = "Average Performance"
          /\ pc \in {"return", "exited"}

\* C5: with the capability and fair scheduling the run terminates with exit
\* status 0 after exactly NUMTRIES trials; the thread-count diagnostic is
\* printed before the first trial starts, and after the last trial the two
\* result lines, peak first and average second, and nothing else.
Thm_C5 ==
    /\ openmp => <>(pc = "exited" /\ exit = 0)
    /\ [](openmp =>
            /\ exit \in {-1, 0}
            /\ t <= NUMTRIES
            /\ OutputOrder
            /\ (pc \in {"fork", "join", "agg"} \/ t >= 1 => Len(out) >= 1)
            /\ (pc = "exited" =>
                  exit = 0 /\ Len(out) = 3 /\ t = NUMTRIES /\ Len(samples) = NUMTRIES))

\* a successful run of two trials with two threads has ended
Wit_C5 ==
    /\ pc = "exited" /\ exit = 0 /\ NUMTRIES = 2 /\ NUMT = 2
    /\ Len(out) = 3 /\ Len(samples) = 2

\* C6: within a trial every index of C is written at most once, and only
\* by the worker it is assigned to; the sets of indices the workers have
\* executed are pairwise disjoint; when all workers have finished, and after
\* the region, every index has been written exactly once.
Thm_C6 ==
    /\ \A k \in Index : writes[k] <= 1
    /\ \A w \in Workers : \A k \in done[w] : owner[k] = w /\ writes[k] = 1
    /\ \A v, w \in Workers : v # w => done[v] \cap done[w] = {}
    /\ pc = "join" =>
          \A k \in Index : writes[k] = Cardinality({w \in Workers : k \in done[w]})
    /\ (pc = "join" /\ \A w \in Team : wpc[w] = "done") =>
          UNION {done[w] : w \in Workers} = Index
    /\ pc = "agg" => \A k \in Index : writes[k] = 1

\* both threads of the second trial executed iterations and have finished
Wit_C6 ==
    /\ pc = "join" /\ t = 1 /\ NUMT = 2
    /\ done[0] # {} /\ done[1] # {}
    /\ done[0] \cup done[1] = Index
    /\ \A k \in Index : writes[k] = 1

\* C7: a worker runs only between the fork and the join of a trial; the end
\* timestamp is taken only when every iteration of the trial has been
\* executed, and no worker runs when the next trial starts.
Thm_C7 ==
    /\ (\E w \in Workers : wpc[w] # "idle") => pc = "join"
    /\ pc = "agg" => \A k \in Index : writes[k] >= 1
    /\ (pc \in {"loop", "fork"} /\ t >= 1) => \A k \in Index : writes[k] >= 1

\* the start timestamp of the second trial has been taken, after both
\* workers of the first trial finished
Wit_C7 ==
    /\ pc = "fork" /\ t = 1 /\ NUMT = 2
    /\ \A w \in Workers : wpc[w] = "idle"
    /\ \A k \in Index : writes[k] = 1

\* C8: after the initialization loop every element of A is 1 and every
\* element of B is 2, in every later state of the run.
Thm_C8 ==
    (openmp /\ (pc \notin {"start", "init"} \/ (pc = "init" /\ i = SIZE))) =>
        \A k \in Index : A[k] = 1 /\ B[k] = 2

\* workers of the second trial are writing C, A and B are as initialized
Wit_C8 ==
    /\ pc = "join" /\ t = 1
    /\ \E w \in Workers : wpc[w] = "run" /\ done[w] # {}
    /\ \A k \in Index : A[k] = 1 /\ B[k] = 2

\* C9: sum and maxMegaMults do not change while a parallel region is
\* active or a worker runs; they change only in the step of the controlling
\* thread that follows the end timestamp of a trial, once per trial.
Thm_C9 ==
    [][ /\ (pc \in {"fork", "join"} \/ \E w \in Workers : wpc[w] = "run") =>
              (sum' = sum /\ maxMegaMults' = maxMegaMults /\ samples' = samples)
        /\ (sum' # sum \/ maxMegaMults' # maxMegaMults \/ samples' # samples) =>
              /\ pc = "agg" /\ pc' = "loop"
              /\ t' = t + 1 /\ Len(samples') = t'
              /\ \A w \in Workers : wpc[w] = "idle"
              /\ \A k \in Index : writes[k] = 1
        /\ (pc = "agg" /\ pc' # pc) => (Len(samples') = Len(samples) + 1 /\ pc' = "loop")
      ]_vars

\* two trials have been aggregated in a run with two threads
Wit_C9 ==
    /\ pc = "loop" /\ t = 2 /\ NUMT = 2 /\ Len(samples) = 2
    /\ sum # Zero

\* the sum of a sequence of samples, added from left to right
RECURSIVE SumOf(_)
SumOf(s) ==
    IF s = <<>> THEN Zero
    ELSE FAdd[SumOf(SubSeq(s, 1, Len(s) - 1)), s[Len(s)]]

\* C10: after k completed trials sum is the sum of the k samples (added in
\* order) and maxMegaMults is the maximum of 0 and the k samples; the
\* maximum is never negative and never decreases.
Thm_C10 ==
    /\ [](/\ Len(samples) = t
          /\ sum = SumOf(samples)
          /\ FGe[maxMegaMults, Zero]
          /\ \A j \in 1..Len(samples) : FGe[maxMegaMults, samples[j]]
          /\ (maxMegaMults = Zero \/ \E j \in 1..Len(samples) : maxMegaMults = samples[j])
          /\ (t = 0 => maxMegaMults = Zero /\ sum = Zero))
    /\ [][FGe[maxMegaMults', maxMegaMults]]_vars

\* two trials completed, one with a negative and one with a positive sample
Wit_C10 ==
    /\ t = 2 /\ pc = "loop"
    /\ samples[1].m > 0 /\ samples[2].m < 0
    /\ maxMegaMults = samples[1]

====
